---- MODULE Spec2Model ----
(***************************************************************************)
(* Model of plugins/llvm/llvm_binary.hpp: the image loader that turns an   *)
(* LLVM object::Binary (ELF, Mach-O, PE/COFF) into an img::image holding   *)
(* arch, entry, segments, symbols and sections.                            *)
(*                                                                         *)
(* Where the header has an LLVM 3.4 and an LLVM 3.8 branch, the LLVM 3.4   *)
(* branch is modelled: it is the one that holds the repository's own       *)
(* symbol readers (sym::read for COFF and ELF).                            *)
(*                                                                         *)
(* Fixed-width integers: a 32-bit field is modelled WordBits wide and a    *)
(* 64-bit field 2*WordBits wide, so that wrap-around is reachable inside   *)
(* TLC's integer range.                                                    *)
(***************************************************************************)
EXTENDS Integers, Sequences, FiniteSets, TLC

\* ---------------------------------------------------------------- bounds
WordBits    == 3    \* modelled width of a 32-bit word
MaxPhdr     == 2    \* freely chosen ELF program headers
PadLen      == 10   \* non-loadable headers that may precede them
MaxCmds     == 3    \* Mach-O load commands
MaxSections == 2    \* PE/COFF sections in the segment specification
MaxSymSecs  == 2    \* PE/COFF sections in the symbol specification
MaxSyms     == 3    \* PE/COFF symbols
MaxElfSyms  == 2    \* entries of each ELF symbol table

Mod32 == 2 ^ WordBits
Mod64 == 2 ^ (2 * WordBits)

\* ------------------------------------------------------- program constants
PT_LOAD == 1
PF_X == 1
PF_W == 2
PF_R == 4
VM_PROT_READ == 1
VM_PROT_WRITE == 2
VM_PROT_EXECUTE == 4
IMAGE_SYM_UNDEFINED == 0
IMAGE_SYM_ABSOLUTE == -1
IMAGE_SYM_DEBUG == -2

\* ------------------------------------------------------------- failure path
\* llvm_binary_fail never returns: the value of a failed computation is the
\* message only.
Fail(m) == [failed |-> TRUE, msg |-> m, val |-> <<>>]
Ok(v) == [failed |-> FALSE, msg |-> "", val |-> v]

\* a & b on naturals
RECURSIVE BitAnd(_, _)
BitAnd(a, b) ==
    IF a = 0 \/ b = 0 THEN 0
    ELSE (a % 2) * (b % 2) + 2 * BitAnd(a \div 2, b \div 2)

\* static_cast<bool>(x & flag)
TestBit(x, flag) == BitAnd(x, flag) # 0

\* ------------------------------------------------------------ seg (ELF)
DigitChar == <<"0", "1", "2", "3", "4", "5", "6", "7", "8", "9">>

\* operator<<(int): the decimal digits of n
RECURSIVE Digits(_)
Digits(n) ==
    IF n < 10 THEN <<DigitChar[n + 1]>>
    ELSE Append(Digits(n \div 10), DigitChar[(n % 10) + 1])

\* SetW2 without the fill character
SetW2_NoFill(pos) == Digits(pos)

\* oss << setfill('0') << setw(2) << pos
SetW2(pos) ==
    LET d == Digits(pos) IN IF Len(d) < 2 THEN <<"0">> \o d ELSE d

segment_ELF(it, pos) ==
    [name |-> SetW2(pos),
     offset |-> it.p_offset,
     addr |-> it.p_vaddr,
     size |-> it.p_filesz,
     is_readable |-> TestBit(it.p_flags, PF_R),
     is_writable |-> TestBit(it.p_flags, PF_W),
     is_executable |-> TestBit(it.p_flags, PF_X)]

\* the loop of seg::read(const ELFObjectFile<T>&), from position pos on
RECURSIVE ReadPhdrs(_, _)
ReadPhdrs(phdrs, pos) ==
    IF pos >= Len(phdrs) THEN <<>>
    ELSE (IF phdrs[pos + 1].p_type = PT_LOAD
          THEN <<segment_ELF(phdrs[pos + 1], pos)>>
          ELSE <<>>) \o ReadPhdrs(phdrs, pos + 1)

seg_read_ELF(obj) == Ok(ReadPhdrs(obj.phdrs, 0))

\* ---------------------------------------------------------- seg (Mach-O)
make_segment_MachO(s) ==
    [name |-> s.segname,
     offset |-> s.fileoff,
     addr |-> s.vmaddr,
     size |-> s.filesize,
     is_readable |-> TestBit(s.initprot, VM_PROT_READ),
     is_writable |-> TestBit(s.initprot, VM_PROT_WRITE),
     is_executable |-> TestBit(s.initprot, VM_PROT_EXECUTE)]

RECURSIVE ReadCmds(_, _)
ReadCmds(cmds, k) ==
    IF k > Len(cmds) THEN <<>>
    ELSE (IF cmds[k].cmd = "LC_SEGMENT_64" THEN <<make_segment_MachO(cmds[k])>> ELSE <<>>)
         \o (IF cmds[k].cmd = "LC_SEGMENT" THEN <<make_segment_MachO(cmds[k])>> ELSE <<>>)
         \o ReadCmds(cmds, k + 1)

seg_read_MachO(obj) == Ok(ReadCmds(obj.load_commands, 1))

\* --------------------------------------------------------- seg (PE/COFF)
\* static_cast<T>(x), T named by sizeof(T): uint32_t is 4, uint64_t is 8
Cast(T, x) == x % (IF T = 4 THEN Mod32 ELSE Mod64)

\* template <typename T> segment make_segment(T image_base, const coff_section &s)
make_segment_COFF(T, image_base, s) ==
    [name |-> s.Name,
     offset |-> Cast(T, s.PointerToRawData),
     addr |-> Cast(T, s.VirtualAddress + image_base),
     size |-> Cast(T, s.SizeOfRawData),
     is_readable |-> "IMAGE_SCN_MEM_READ" \in s.Characteristics,
     is_writable |-> "IMAGE_SCN_MEM_WRITE" \in s.Characteristics,
     is_executable |-> "IMAGE_SCN_MEM_EXECUTE" \in s.Characteristics]

\* ReadPESections that forgets the uninitialized-data flag
RECURSIVE ReadPESections_NoBss(_, _, _, _)
ReadPESections_NoBss(T, secs, image_base, k) ==
    IF k > Len(secs) THEN <<>>
    ELSE LET c == secs[k].Characteristics IN
         (IF \/ "IMAGE_SCN_CNT_CODE" \in c
             \/ "IMAGE_SCN_CNT_INITIALIZED_DATA" \in c
          THEN <<make_segment_COFF(T, image_base, secs[k])>>
          ELSE <<>>) \o ReadPESections_NoBss(T, secs, image_base, k + 1)

RECURSIVE ReadPESections(_, _, _, _)
ReadPESections(T, secs, image_base, k) ==
    IF k > Len(secs) THEN <<>>
    ELSE LET c == secs[k].Characteristics IN
         (IF \/ "IMAGE_SCN_CNT_CODE" \in c
             \/ "IMAGE_SCN_CNT_INITIALIZED_DATA" \in c
             \/ "IMAGE_SCN_CNT_UNINITIALIZED_DATA" \in c
          THEN <<make_segment_COFF(T, image_base, secs[k])>>
          ELSE <<>>) \o ReadPESections(T, secs, image_base, k + 1)

readPE(T, obj, image_base) == ReadPESections(T, obj.sections, image_base, 1)

\* utils::getPE32PlusHeader: the header found through the DOS stub, NULL when
\* the buffer does not start with "MZ"
getPE32PlusHeader(obj) ==
    IF obj.mz
    THEN IF ~obj.pe_sig THEN Fail("PE Plus header not found") ELSE Ok("header")
    ELSE Ok("NULL")

\* The 4-byte branch dereferences pe32 without a null test; image_entry_COFF
\* runs before it and has already failed on a null header of the same object.
seg_read_COFF(obj) ==
    IF obj.BytesInAddress = 4
    THEN IF obj.hdr_ec THEN Fail("getPE32Header")
         ELSE Ok(readPE(4, obj, obj.ImageBase))
    ELSE LET pe32plus == getPE32PlusHeader(obj) IN
         IF pe32plus.failed THEN pe32plus
         ELSE IF pe32plus.val = "NULL" THEN Fail("Failed to extract PE32+ header")
         ELSE Ok(readPE(8, obj, obj.ImageBase))

\* ---------------------------------------------------------------- sym
\* make_symbol(const SymbolRef&): any getter's error code ends the call
make_symbol(sym) ==
    IF sym.ec THEN Fail("symbol")
    ELSE Ok([name |-> sym.name, kind |-> sym.kind, addr |-> sym.addr, size |-> sym.size])

\* read(begin, end, out): std::transform of make_symbol, appended to out
RECURSIVE read_range(_, _, _)
read_range(syms, k, out) ==
    IF k > Len(syms) THEN Ok(out)
    ELSE LET s == make_symbol(syms[k]) IN
         IF s.failed THEN s ELSE read_range(syms, k + 1, Append(out, s.val))

\* std::vector<symbol> read(const ObjectFile&)
sym_read_Obj(obj) == read_range(obj.symbols, 1, <<>>)

\* sym_read_ELF that reads the dynamic table first
sym_read_ELF_DynFirst(obj) ==
    LET it == read_range(obj.dynamic_symbols, 1, <<>>) IN
    IF it.failed THEN it ELSE read_range(obj.symbols, 1, it.val)

\* template <typename ELFT> read(const ELFObjectFile<ELFT>&)
sym_read_ELF(obj) ==
    LET it == read_range(obj.symbols, 1, <<>>) IN
    IF it.failed THEN it ELSE read_range(obj.dynamic_symbols, 1, it.val)

\* make_symbol(const SymbolRef&, uint64_t addr, uint64_t size)
make_symbol_COFF(sym, addr, size) ==
    IF sym.ec THEN Fail("symbol")
    ELSE Ok([name |-> sym.name, kind |-> sym.kind, addr |-> addr, size |-> size])

\* COFFObjectFile::getSection as sym::read uses it: an error code, a null
\* section (0) for the special section numbers, or the section (its index)
getSection(obj, n) ==
    IF n \in {IMAGE_SYM_UNDEFINED, IMAGE_SYM_ABSOLUTE, IMAGE_SYM_DEBUG} THEN Ok(0)
    ELSE IF n > 0 /\ n <= Len(obj.sections) THEN Ok(n)
    ELSE Fail("getSection")

\* ScanSize that compares against the symbols of every section
RECURSIVE ScanSize_AnySection(_, _, _, _)
ScanSize_AnySection(syms, k, sym, size) ==
    IF k > Len(syms) THEN size
    ELSE LET next == syms[k]
             new_size == IF next.Value > sym.Value THEN next.Value - sym.Value ELSE size
         IN ScanSize_AnySection(syms, k + 1, sym, IF new_size < size THEN new_size ELSE size)

\* the inner loop of sym::read(const COFFObjectFile&, uint64_t), from symbol k on
RECURSIVE ScanSize(_, _, _, _)
ScanSize(syms, k, sym, size) ==
    IF k > Len(syms) THEN size
    ELSE LET next == syms[k] IN
         IF next.SectionNumber = sym.SectionNumber
         THEN LET new_size == IF next.Value > sym.Value
                              THEN next.Value - sym.Value
                              ELSE size
              IN ScanSize(syms, k + 1, sym, IF new_size < size THEN new_size ELSE size)
         ELSE ScanSize(syms, k + 1, sym, size)

\* the outer loop, from symbol k on
RECURSIVE ReadCOFFSyms(_, _, _, _)
ReadCOFFSyms(obj, image_base, k, symbols) ==
    IF k > Len(obj.coff_symbols) THEN Ok(symbols)
    ELSE LET sym == obj.coff_symbols[k] IN
         IF sym.SectionNumber = IMAGE_SYM_UNDEFINED
         THEN ReadCOFFSyms(obj, image_base, k + 1, symbols)
         ELSE LET r == getSection(obj, sym.SectionNumber) IN
              IF r.failed THEN r
              ELSE IF r.val = 0 THEN ReadCOFFSyms(obj, image_base, k + 1, symbols)
              ELSE LET sec == obj.sections[r.val]
                       end32 == (sec.VirtualAddress + sec.SizeOfRawData) % Mod32
                       size0 == (end32 + Mod32 - sym.Value) % Mod32
                       size == ScanSize(obj.coff_symbols, 1, sym, size0)
                       addr == (sec.VirtualAddress + image_base + sym.Value) % Mod64
                       s == make_symbol_COFF(sym, addr, size)
                   IN IF s.failed THEN s
                      ELSE ReadCOFFSyms(obj, image_base, k + 1, Append(symbols, s.val))

sym_read_COFF_base(obj, image_base) == ReadCOFFSyms(obj, image_base, 1, <<>>)

\* std::vector<symbol> read(const COFFObjectFile&)
sym_read_COFF(obj) ==
    IF obj.BytesInAddress = 4
    THEN IF obj.hdr_ec THEN Fail("getPE32Header")
         ELSE sym_read_COFF_base(obj, obj.ImageBase)
    ELSE LET pe32plus == getPE32PlusHeader(obj) IN
         IF pe32plus.failed THEN pe32plus
         ELSE IF pe32plus.val = "NULL" THEN Fail("Failed to extract PE32+ header")
         ELSE sym_read_COFF_base(obj, obj.ImageBase)

\* ---------------------------------------------------------------- sec
make_section(sec) ==
    IF sec.ec THEN Fail("section")
    ELSE Ok([name |-> sec.name, addr |-> sec.addr, size |-> sec.size])

RECURSIVE ReadSections(_, _, _)
ReadSections(secs, k, out) ==
    IF k > Len(secs) THEN Ok(out)
    ELSE LET s == make_section(secs[k]) IN
         IF s.failed THEN s ELSE ReadSections(secs, k + 1, Append(out, s.val))

sec_read(obj) == ReadSections(obj.sections, 1, <<>>)

\* ---------------------------------------------------------------- img
ELFKinds == {"ELF32LE", "ELF32BE", "ELF64LE", "ELF64BE"}

image_arch(obj) == obj.arch

image_entry_ELF(obj) == Ok(obj.e_entry)

\* the position of the first LC_MAIN from k on, 0 for end_load_commands()
RECURSIVE find_if_LC_MAIN(_, _)
find_if_LC_MAIN(cmds, k) ==
    IF k > Len(cmds) THEN 0
    ELSE IF cmds[k].cmd = "LC_MAIN" THEN k
    ELSE find_if_LC_MAIN(cmds, k + 1)

\* image_entry_MachO that defaults to zero when LC_MAIN is absent
image_entry_MachO_Zero(obj) ==
    LET it == find_if_LC_MAIN(obj.load_commands, 1) IN
    IF it # 0 THEN Ok(obj.load_commands[it].entryoff) ELSE Ok(0)

image_entry_MachO(obj) ==
    LET it == find_if_LC_MAIN(obj.load_commands, 1) IN
    IF it # 0 THEN Ok(obj.load_commands[it].entryoff)
    ELSE Fail("LC_MAIN not found, binary version < 10.8")

image_entry_COFF(obj) ==
    IF obj.hdr_ec
    THEN Fail(IF obj.BytesInAddress = 4 THEN "getPE32Header" ELSE "getPE32PlusHeader")
    ELSE IF obj.hdr_null
    THEN Fail(IF obj.BytesInAddress = 4 THEN "PE header not found" ELSE "PEplus header no found")
    ELSE Ok(obj.AddressOfEntryPoint)

\* the overloads objectfile_image<T> picks for its T
image_entry(obj) ==
    IF obj.kind \in ELFKinds THEN image_entry_ELF(obj)
    ELSE IF obj.kind = "MachO" THEN image_entry_MachO(obj)
    ELSE image_entry_COFF(obj)

seg_read(obj) ==
    IF obj.kind \in ELFKinds THEN seg_read_ELF(obj)
    ELSE IF obj.kind = "MachO" THEN seg_read_MachO(obj)
    ELSE seg_read_COFF(obj)

sym_read(obj) ==
    IF obj.kind \in ELFKinds THEN sym_read_ELF(obj)
    ELSE IF obj.kind = "COFF" THEN sym_read_COFF(obj)
    ELSE sym_read_Obj(obj)

\* create(std::unique_ptr<object::Binary>) down to create_image<T>: the T the
\* image is built for, or the failure
IsObjectFile(b) == b.kind \in ELFKinds \cup {"COFF", "MachO", "IR"}

create_image_obj(b) ==
    IF b.kind = "COFF" THEN Ok("COFF")
    ELSE IF b.kind \in ELFKinds THEN Ok(b.kind)
    ELSE IF b.kind = "MachO" THEN Ok("MachO")
    ELSE Fail("Unrecognized object format")

create_image_arch(b) == Fail("Archive loading unimplemented")

\* create without the Archive branch
create_NoArchive(b) ==
    IF IsObjectFile(b) THEN create_image_obj(b)
    ELSE Fail("Unrecognized binary format")

create(b) ==
    IF b.kind = "Archive" THEN create_image_arch(b)
    ELSE IF IsObjectFile(b) THEN create_image_obj(b)
    ELSE Fail("Unrecognized binary format")

\* ------------------------------------------------------------- inputs
\* sequences over S of length at most n
SeqUpTo(S, n) == UNION {[1..k -> S] : k \in 0..n}

\* an object::Binary as the loader reads it; every field a format does not
\* have is left at its blank value
Blank ==
    [kind |-> "IR", arch |-> "unknown", e_entry |-> 0,
     phdrs |-> <<>>, symbols |-> <<>>, dynamic_symbols |-> <<>>,
     load_commands |-> <<>>,
     BytesInAddress |-> 4, hdr_ec |-> FALSE, hdr_null |-> FALSE,
     mz |-> TRUE, pe_sig |-> TRUE, ImageBase |-> 0, AddressOfEntryPoint |-> 0,
     sections |-> <<>>, coff_symbols |-> <<>>]

\* ELF program headers
PhdrSet ==
    [p_type : {0, PT_LOAD}, p_flags : 0..7,
     p_offset : {1}, p_vaddr : {2, 3}, p_filesz : {4}]

PhdrPad == [k \in 1..PadLen |->
               [p_type |-> 0, p_flags |-> 0, p_offset |-> 0, p_vaddr |-> 0, p_filesz |-> 0]]

\* SymbolRef of an ELF or Mach-O symbol table
SymRefSet ==
    {[name |-> n, kind |-> "ST_Function", addr |-> 1, size |-> z, ec |-> FALSE] :
        n \in {"a", "b"}, z \in {1, 2}}
    \cup {[name |-> "bad", kind |-> "ST_Unknown", addr |-> 0, size |-> 0, ec |-> TRUE]}

\* SectionRef of an ELF or Mach-O section
SecRefSet ==
    {[name |-> ".text", addr |-> 1, size |-> 2, ec |-> e] : e \in BOOLEAN}

\* Mach-O load commands
SegCmd(c, prot) ==
    [cmd |-> c, entryoff |-> 7, segname |-> "__TEXT", fileoff |-> 1, vmaddr |-> 2,
     filesize |-> 3, initprot |-> prot]

CmdSet ==
    {[SegCmd("LC_MAIN", 0) EXCEPT !.entryoff = e] : e \in {0, 5, 6}}
    \cup {SegCmd("LC_UNIXTHREAD", 0)}
    \cup {SegCmd(c, prot) : c \in {"LC_SEGMENT", "LC_SEGMENT_64"}, prot \in {0, 3, 5, 6}}

\* PE/COFF sections: the k-th section of a file has the k-th name (shorter
\* than the 8 bytes of coff_section::Name, so that the name is terminated)
SecNames == <<".s1", ".s2", ".s3", ".s4">>

coff_section(k, va, sz, c) ==
    [Name |-> SecNames[k], PointerToRawData |-> k, VirtualAddress |-> va,
     SizeOfRawData |-> sz, Characteristics |-> c,
     name |-> SecNames[k], addr |-> va, size |-> sz, ec |-> FALSE]

ContentFlags ==
    {"IMAGE_SCN_CNT_CODE", "IMAGE_SCN_CNT_INITIALIZED_DATA",
     "IMAGE_SCN_CNT_UNINITIALIZED_DATA"}

MemFlags == {"IMAGE_SCN_MEM_READ", "IMAGE_SCN_MEM_WRITE", "IMAGE_SCN_MEM_EXECUTE"}

CharSet ==
    {c \cup m : c \in {{}} \cup {{f} : f \in ContentFlags}, m \in SUBSET MemFlags}
    \cup {ContentFlags \cup MemFlags,
          {"IMAGE_SCN_MEM_DISCARDABLE"}, {"IMAGE_SCN_MEM_DISCARDABLE", "IMAGE_SCN_MEM_READ"}}

\* the (VirtualAddress, SizeOfRawData) of the sections symbols lie in
SymSecLayouts == {<<0, 3>>, <<2, 3>>, <<0, 1>>}

\* PE/COFF symbols: the k-th symbol of a file has the k-th name
SymNames == <<"A", "B", "C", "D", "E">>

coff_symbol(k, n, v) ==
    [name |-> SymNames[k], kind |-> "ST_Function", SectionNumber |-> n, Value |-> v,
     ec |-> FALSE]

\* the (SectionNumber, Value) of a symbol
CoffSymbolSet ==
    {<<1, v>> : v \in {0, 1, 2}}
    \cup {<<2, 1>>, <<IMAGE_SYM_UNDEFINED, 1>>, <<IMAGE_SYM_ABSOLUTE, 1>>}

\* every kind of buffer, with small contents and every getter's error code
GeneralInputs ==
    {[Blank EXCEPT !.kind = k] : k \in {"Invalid", "Archive", "MachOUniversalBinary", "IR"}}
    \cup {[Blank EXCEPT !.kind = k, !.arch = "x86", !.phdrs = hs, !.symbols = st,
                        !.sections = secs] :
            k \in ELFKinds,
            hs \in SeqUpTo({h \in PhdrSet : h.p_flags = 5 /\ h.p_vaddr = 2}, 1),
            st \in SeqUpTo({y \in SymRefSet : y.name # "b" /\ y.size # 2}, 1),
            secs \in SeqUpTo(SecRefSet, 1)}
    \cup {[Blank EXCEPT !.kind = "MachO", !.arch = "x86_64", !.load_commands = cmds,
                        !.symbols = st, !.sections = secs] :
            cmds \in SeqUpTo({c \in CmdSet : c.entryoff # 6 /\ c.initprot \in {0, 5}}, 2),
            st \in SeqUpTo({y \in SymRefSet : y.name # "b" /\ y.size # 2}, 1),
            secs \in SeqUpTo(SecRefSet, 1)}
    \cup {[Blank EXCEPT !.kind = "COFF", !.arch = "i386", !.BytesInAddress = w,
                        !.hdr_ec = h[1], !.hdr_null = h[2], !.mz = h[3], !.pe_sig = h[4],
                        !.ImageBase = 1, !.sections = secs, !.coff_symbols = syms] :
            w \in {4, 8},
            h \in {<<FALSE, FALSE, TRUE, TRUE>>, <<TRUE, FALSE, TRUE, FALSE>>,
                   <<FALSE, TRUE, FALSE, FALSE>>, <<TRUE, FALSE, FALSE, FALSE>>},
            secs \in {<<>>} \cup {<<[coff_section(1, 1, 2, c) EXCEPT !.ec = e]>> :
                                     c \in {{}, {"IMAGE_SCN_CNT_CODE", "IMAGE_SCN_MEM_READ"}},
                                     e \in BOOLEAN},
            syms \in {<<>>} \cup {<<[y EXCEPT !.ec = e]>> :
                                     y \in {coff_symbol(1, q[1], q[2]) : q \in CoffSymbolSet},
                                     e \in BOOLEAN}}

\* -------------------------------------------------------------- the loader
VARIABLES
    data,       \* the caller's buffer, as createBinary reads it
    binary,     \* <<>> or <<the object::Binary>>
    pc,         \* the position of the create(data, size) call
    arch_, entry_, segments_, symbols_, sections_,
                \* the members of the objectfile_image under construction:
                \* <<>> while uninitialised, <<value>> once initialised
    result,     \* <<>> or <<the image handed back to the caller>>
    error       \* <<>> or <<the message llvm_binary_fail was called with>>

vars == <<data, binary, pc, arch_, entry_, segments_, symbols_, sections_, result, error>>

members == <<arch_, entry_, segments_, symbols_, sections_>>

Start(d) ==
    /\ data = d
    /\ binary = <<>>
    /\ pc = "create"
    /\ arch_ = <<>> /\ entry_ = <<>> /\ segments_ = <<>>
    /\ symbols_ = <<>> /\ sections_ = <<>>
    /\ result = <<>>
    /\ error = <<>>

Init == \E d \in GeneralInputs : Start(d)

InitELFSeg ==
    \E n \in 0..MaxPhdr : \E hs \in [1..n -> PhdrSet] : \E pad \in {<<>>, PhdrPad} :
        Start([Blank EXCEPT !.kind = "ELF32LE", !.arch = "x86", !.e_entry = 5,
                            !.phdrs = pad \o hs])

InitELFSym ==
    \E n \in 0..MaxElfSyms : \E st \in [1..n -> SymRefSet] :
    \E m \in 0..MaxElfSyms : \E dy \in [1..m -> SymRefSet] :
        Start([Blank EXCEPT !.kind = "ELF64LE", !.arch = "x86_64", !.symbols = st,
                            !.dynamic_symbols = dy])

InitMachO ==
    \E n \in 0..MaxCmds : \E cmds \in [1..n -> CmdSet] :
        Start([Blank EXCEPT !.kind = "MachO", !.arch = "x86_64", !.load_commands = cmds])

InitPESeg ==
    \E n \in 0..MaxSections : \E cs \in [1..n -> CharSet] :
    \E w \in {<<4, 0>>, <<4, Mod32 - 1>>, <<8, Mod32>>} :
        Start([Blank EXCEPT !.kind = "COFF", !.arch = "i386", !.BytesInAddress = w[1],
                            !.ImageBase = w[2], !.AddressOfEntryPoint = 1,
                            !.sections = [k \in 1..n |-> coff_section(k, k, k + 1, cs[k])]])

InitPESym ==
    \E n \in 0..MaxSymSecs : \E lay \in [1..n -> SymSecLayouts] :
    \E m \in 0..MaxSyms : \E ys \in [1..m -> CoffSymbolSet] :
    \E b \in {0, 4} :
        Start([Blank EXCEPT
                 !.kind = "COFF", !.arch = "i386", !.BytesInAddress = 4, !.ImageBase = b,
                 !.sections = [k \in 1..n |->
                                  coff_section(k, lay[k][1], lay[k][2], {"IMAGE_SCN_CNT_CODE"})],
                 !.coff_symbols = [k \in 1..m |-> coff_symbol(k, ys[k][1], ys[k][2])]])

\* llvm_binary_fail: the call never returns, so nothing is handed back
llvm_binary_fail(m) ==
    /\ pc' = "failed"
    /\ error' = <<m>>
    /\ result' = <<>>

\* image* create(const char* data, std::size_t size), up to createBinary
CreateBinary ==
    /\ pc = "create"
    /\ IF data.kind = "Invalid"
       THEN /\ llvm_binary_fail("createBinary")
            /\ UNCHANGED <<data, binary, members>>
       ELSE /\ binary' = <<data>>
            /\ pc' = "dispatch"
            /\ UNCHANGED <<data, members, result, error>>

\* create(binary) and the create_image_* functions it calls
Dispatch ==
    /\ pc = "dispatch"
    /\ LET r == create(binary[1]) IN
       IF r.failed
       THEN /\ llvm_binary_fail(r.msg)
            /\ UNCHANGED <<data, binary, members>>
       ELSE /\ pc' = "arch_"
            /\ UNCHANGED <<data, binary, members, result, error>>

\* the member initialisers of objectfile_image<T>, in declaration order
InitArch ==
    /\ pc = "arch_"
    /\ arch_' = <<image_arch(binary[1])>>
    /\ pc' = "entry_"
    /\ UNCHANGED <<data, binary, entry_, segments_, symbols_, sections_, result, error>>

InitEntry ==
    /\ pc = "entry_"
    /\ LET r == image_entry(binary[1]) IN
       IF r.failed
       THEN /\ llvm_binary_fail(r.msg)
            /\ UNCHANGED <<data, binary, members>>
       ELSE /\ entry_' = <<r.val>>
            /\ pc' = "segments_"
            /\ UNCHANGED <<data, binary, arch_, segments_, symbols_, sections_, result, error>>

InitSegments ==
    /\ pc = "segments_"
    /\ LET r == seg_read(binary[1]) IN
       IF r.failed
       THEN /\ llvm_binary_fail(r.msg)
            /\ UNCHANGED <<data, binary, members>>
       ELSE /\ segments_' = <<r.val>>
            /\ pc' = "symbols_"
            /\ UNCHANGED <<data, binary, arch_, entry_, symbols_, sections_, result, error>>

\* InitSymbols whose failure path returns to the constructor
InitSymbols_FailReturns ==
    /\ pc = "symbols_"
    /\ LET r == sym_read(binary[1]) IN
       /\ symbols_' = IF r.failed THEN symbols_ ELSE <<r.val>>
       /\ pc' = "sections_"
       /\ UNCHANGED <<data, binary, arch_, entry_, segments_, sections_, result, error>>

InitSymbols ==
    /\ pc = "symbols_"
    /\ LET r == sym_read(binary[1]) IN
       IF r.failed
       THEN /\ llvm_binary_fail(r.msg)
            /\ UNCHANGED <<data, binary, members>>
       ELSE /\ symbols_' = <<r.val>>
            /\ pc' = "sections_"
            /\ UNCHANGED <<data, binary, arch_, entry_, segments_, sections_, result, error>>

InitSections ==
    /\ pc = "sections_"
    /\ LET r == sec_read(binary[1]) IN
       IF r.failed
       THEN /\ llvm_binary_fail(r.msg)
            /\ UNCHANGED <<data, binary, members>>
       ELSE /\ sections_' = <<r.val>>
            /\ pc' = "binary_"
            /\ UNCHANGED <<data, binary, arch_, entry_, segments_, symbols_, result, error>>

\* binary_(move(ptr)), and create_image<T> returns the new image
Return ==
    /\ pc = "binary_"
    /\ result' = <<[arch_ |-> arch_, entry_ |-> entry_, segments_ |-> segments_,
                    symbols_ |-> symbols_, sections_ |-> sections_]>>
    /\ pc' = "done"
    /\ UNCHANGED <<data, binary, members, error>>

Next ==
    \/ CreateBinary
    \/ Dispatch
    \/ InitArch
    \/ InitEntry
    \/ InitSegments
    \/ InitSymbols
    \/ InitSections
    \/ Return

Spec == Init /\ [][Next]_vars
SpecELFSeg == InitELFSeg /\ [][Next]_vars
SpecELFSym == InitELFSym /\ [][Next]_vars
SpecMachO == InitMachO /\ [][Next]_vars
SpecPESeg == InitPESeg /\ [][Next]_vars
SpecPESym == InitPESym /\ [][Next]_vars

\* ------------------------------------------------------------ properties
Populated(m) == Len(m) = 1

\* some step of the decode of b calls llvm_binary_fail
FailsSomewhere(b) ==
    \/ b.kind = "Invalid"
    \/ create(b).failed
    \/ /\ b.kind # "Invalid"
       /\ ~create(b).failed
       /\ \/ image_entry(b).failed
          \/ seg_read(b).failed
          \/ sym_read(b).failed
          \/ sec_read(b).failed

\* C1: construction is all-or-nothing. An image handed back to the caller has
\* all five of arch, entry, segments, symbols and sections populated and its
\* decode met no failure; a call that failed carries an error and hands back
\* no image, whatever members it had initialised before the failure.
C1_AllOrNothing ==
    /\ result # <<>> =>
          /\ pc = "done"
          /\ error = <<>>
          /\ Populated(result[1].arch_)
          /\ Populated(result[1].entry_)
          /\ Populated(result[1].segments_)
          /\ Populated(result[1].symbols_)
          /\ Populated(result[1].sections_)
          /\ ~FailsSomewhere(data)
    /\ pc = "failed" <=> error # <<>>
    /\ pc = "failed" => result = <<>>
    /\ pc = "done" => result # <<>>

\* a decode that failed in the symbol reader, after arch, entry and segments
\* were initialised
C1_Witness ==
    /\ pc = "failed"
    /\ Populated(arch_) /\ Populated(entry_) /\ Populated(segments_)
    /\ symbols_ = <<>>
    /\ result = <<>>

\* C2: a buffer recognized as an Archive never gets past the dispatch: no
\* member of an image is computed, no image is handed back, and the failure
\* is the "Archive loading unimplemented" one.
C2_ArchiveUnsupported ==
    data.kind = "Archive" =>
        /\ pc \in {"create", "dispatch", "failed"}
        /\ result = <<>>
        /\ arch_ = <<>> /\ entry_ = <<>> /\ segments_ = <<>>
        /\ symbols_ = <<>> /\ sections_ = <<>>
        /\ pc = "failed" => error = <<"Archive loading unimplemented">>

C2_Witness ==
    /\ data.kind = "Archive"
    /\ pc = "failed"
    /\ binary # <<>>

HasLCMain(cmds) == \E i \in DOMAIN cmds : cmds[i].cmd = "LC_MAIN"

\* C3: the Mach-O entry point is the entry-offset field of the (first)
\* LC_MAIN load command; without an LC_MAIN the decode fails at the entry
\* point with an error and no image, never with a defaulted entry.
C3_MachOEntry ==
    data.kind = "MachO" =>
        LET cmds == data.load_commands IN
        /\ entry_ # <<>> =>
              \E i \in DOMAIN cmds :
                  /\ cmds[i].cmd = "LC_MAIN"
                  /\ \A j \in 1..(i - 1) : cmds[j].cmd # "LC_MAIN"
                  /\ entry_[1] = cmds[i].entryoff
        /\ result # <<>> => result[1].entry_ = entry_ /\ entry_ # <<>>
        /\ ~HasLCMain(cmds) =>
              /\ entry_ = <<>>
              /\ result = <<>>
              /\ pc \in {"create", "dispatch", "arch_", "entry_", "failed"}
              /\ pc = "failed" => error = <<"LC_MAIN not found, binary version < 10.8">>

\* a Mach-O with load commands but no LC_MAIN, after the failed decode
C3_Witness ==
    /\ data.kind = "MachO"
    /\ Len(data.load_commands) > 0
    /\ ~HasLCMain(data.load_commands)
    /\ pc = "failed"
    /\ result = <<>>

\* the position in the section table of the section called n
SectionNamed(secs, n) == CHOOSE k \in DOMAIN secs : secs[k].Name = n

\* C4: a PE/COFF section yields a Segment iff its characteristics include
\* code, initialized data or uninitialized data; the Section collection lists
\* every section in file order; Segments keep the order of their sections and
\* their read/write/execute flags follow the three memory characteristics.
C4_PESegments ==
    (pc = "done" /\ data.kind = "COFF") =>
        LET secs == data.sections
            segs == result[1].segments_[1]
            sects == result[1].sections_[1]
        IN
        /\ \A k \in DOMAIN secs :
              (\E j \in DOMAIN segs : segs[j].name = secs[k].Name)
                  <=> (secs[k].Characteristics \cap ContentFlags # {})
        /\ \A j \in DOMAIN segs : \E k \in DOMAIN secs : segs[j].name = secs[k].Name
        /\ Len(sects) = Len(secs)
        /\ \A k \in DOMAIN secs : sects[k].name = secs[k].Name
        /\ \A i, j \in DOMAIN segs :
              i < j => SectionNamed(secs, segs[i].name) < SectionNamed(secs, segs[j].name)
        /\ \A j \in DOMAIN segs :
              LET c == secs[SectionNamed(secs, segs[j].name)].Characteristics IN
              /\ segs[j].is_readable <=> "IMAGE_SCN_MEM_READ" \in c
              /\ segs[j].is_writable <=> "IMAGE_SCN_MEM_WRITE" \in c
              /\ segs[j].is_executable <=> "IMAGE_SCN_MEM_EXECUTE" \in c

\* an uninitialized-data section following a section with debug-only
\* characteristics: one Segment, two Sections
C4_Witness ==
    /\ pc = "done"
    /\ data.kind = "COFF"
    /\ Len(data.sections) = 2
    /\ data.sections[1].Characteristics = {"IMAGE_SCN_MEM_DISCARDABLE", "IMAGE_SCN_MEM_READ"}
    /\ data.sections[2].Characteristics =
          {"IMAGE_SCN_CNT_UNINITIALIZED_DATA", "IMAGE_SCN_MEM_WRITE"}
    /\ Len(result[1].segments_[1]) = 1
    /\ Len(result[1].sections_[1]) = 2

\* C5: every PE/COFF Segment's address is (VirtualAddress + ImageBase) as an
\* unsigned 64-bit value, for the 4-byte and the 8-byte variant alike, and so
\* agrees with the base sym::read adds a symbol's Value to.
C5_PESegmentAddress ==
    (pc = "done" /\ data.kind = "COFF") =>
        LET secs == data.sections
            segs == result[1].segments_[1]
        IN \A j \in DOMAIN segs :
              LET sec == secs[SectionNamed(secs, segs[j].name)] IN
              segs[j].addr = (sec.VirtualAddress + data.ImageBase) % Mod64

\* ---- symbol size inference (PE/COFF)
\* the input symbol an emitted symbol was made from
SymbolNamed(syms, n) == syms[CHOOSE k \in DOMAIN syms : syms[k].name = n]

\* the Values of the other symbols of y's section that lie strictly above y
Above(syms, y) ==
    {syms[k].Value : k \in {i \in DOMAIN syms :
                                /\ syms[i].SectionNumber = y.SectionNumber
                                /\ syms[i].Value > y.Value}}

Min(S) == CHOOSE x \in S : \A z \in S : x <= z

\* sort-by-address-then-scan: the distance to the next symbol of the section
\* at a strictly greater address, or to the end of the section
RefSize(obj, y) ==
    IF Above(obj.coff_symbols, y) # {}
    THEN Min(Above(obj.coff_symbols, y)) - y.Value
    ELSE obj.sections[y.SectionNumber].SizeOfRawData - y.Value

\* C6: a symbol with another symbol of its section at a strictly greater
\* address gets the distance to the nearest such symbol, and the pairwise
\* scan gives every symbol that lies inside its section the size the
\* sort-then-scan reference gives it.
C6_NonLastSize ==
    (symbols_ # <<>> /\ data.kind = "COFF") =>
        \A j \in DOMAIN symbols_[1] :
            LET y == SymbolNamed(data.coff_symbols, symbols_[1][j].name) IN
            /\ Above(data.coff_symbols, y) # {} =>
                  symbols_[1][j].size = Min(Above(data.coff_symbols, y)) - y.Value
            /\ y.Value <= data.sections[y.SectionNumber].SizeOfRawData =>
                  symbols_[1][j].size = RefSize(data, y)

\* C7: a symbol with no symbol of its section at a strictly greater address
\* gets (end of the section - address of the symbol), both taken in the
\* address space of the symbol's emitted address.
C7_LastSize ==
    (symbols_ # <<>> /\ data.kind = "COFF") =>
        \A j \in DOMAIN symbols_[1] :
            LET y == SymbolNamed(data.coff_symbols, symbols_[1][j].name)
                sec == data.sections[y.SectionNumber]
                section_end == sec.VirtualAddress + data.ImageBase + sec.SizeOfRawData
            IN (Above(data.coff_symbols, y) = {} /\ y.Value <= sec.SizeOfRawData) =>
                  symbols_[1][j].size = section_end - symbols_[1][j].addr

IsSkipped(y) ==
    y.SectionNumber \in {IMAGE_SYM_UNDEFINED, IMAGE_SYM_ABSOLUTE, IMAGE_SYM_DEBUG}

IsKept(y) == ~IsSkipped(y)

LoadIdx(phdrs) == {i \in DOMAIN phdrs : phdrs[i].p_type = PT_LOAD}

DigitOf(c) == CHOOSE d \in 0..9 : DigitChar[d + 1] = c

\* the number a string of decimal digits denotes
RECURSIVE DecVal(_)
DecVal(str) ==
    IF Len(str) = 0 THEN 0
    ELSE 10 * DecVal(SubSeq(str, 1, Len(str) - 1)) + DigitOf(str[Len(str)])

\* C8: the ELF Segments are the PT_LOAD program headers in table order; the
\* name is the header's position in the whole table in decimal, padded with
\* zeros to two digits; offset, address and size are the header's; read,
\* write and execute each follow their own permission bit.
C8_ELFSegments ==
    (pc = "done" /\ data.kind \in ELFKinds) =>
        LET ph == data.phdrs
            segs == result[1].segments_[1]
        IN
        /\ Len(segs) = Cardinality(LoadIdx(ph))
        /\ \A j \in DOMAIN segs :
              \E i \in LoadIdx(ph) :
                  /\ Cardinality({m \in LoadIdx(ph) : m < i}) = j - 1
                  /\ DecVal(segs[j].name) = i - 1
                  /\ i - 1 < 100 => Len(segs[j].name) = 2
                  /\ i - 1 < 10 => segs[j].name[1] = "0"
                  /\ segs[j].offset = ph[i].p_offset
                  /\ segs[j].addr = ph[i].p_vaddr
                  /\ segs[j].size = ph[i].p_filesz
                  /\ segs[j].is_readable <=> ((ph[i].p_flags \div 4) % 2 = 1)
                  /\ segs[j].is_writable <=> ((ph[i].p_flags \div 2) % 2 = 1)
                  /\ segs[j].is_executable <=> (ph[i].p_flags % 2 = 1)

\* a loadable header at position 11, after eleven non-loadable ones: the one
\* Segment is called "11"
C8_Witness ==
    /\ pc = "done"
    /\ data.kind \in ELFKinds
    /\ Len(data.phdrs) = 12
    /\ LoadIdx(data.phdrs) = {12}
    /\ Len(result[1].segments_[1]) = 1
    /\ result[1].segments_[1][1].name = <<"1", "1">>
    /\ result[1].segments_[1][1].is_readable
    /\ ~result[1].segments_[1][1].is_writable

SameSymbol(s, ref) ==
    /\ s.name = ref.name
    /\ s.kind = ref.kind
    /\ s.addr = ref.addr
    /\ s.size = ref.size

====
